---- MODULE Spec2Model ----
(***************************************************************************)
(* Patient-Event-Processor.py: process_events(file_path) loads a JSON      *)
(* array of events, folds it into patient_data (an insertion-ordered dict  *)
(* PatientID -> {name, files}) and prints one line per patient that has    *)
(* files.                                                                  *)
(*                                                                         *)
(* A JSON value is a record [t, s]: t is its Python type after json.load   *)
(* ("null", "bool", "num", "str", "arr", "obj"; "absent" for a key that    *)
(* the dict does not have) and s is what str() gives for it, which is what *)
(* an f-string interpolates.  Strings are text that the standard streams   *)
(* can encode.                                                             *)
(***************************************************************************)
EXTENDS Integers, Sequences, FiniteSets, TLC

VARIABLES input, pc, events, i, patient_data, stdout, stderr, exit_code,
          run, first_run

vars == <<input, pc, events, i, patient_data, stdout, stderr, exit_code,
          run, first_run>>

(* ------------------------------ bounds -------------------------------- *)

MaxEvents == 3

MaxRuns == 2

(* --------------------------- JSON values ------------------------------ *)

Absent == [t |-> "absent", s |-> ""]

None == [t |-> "null", s |-> "None"]

Str(x) == [t |-> "str", s |-> x]

Num(x) == [t |-> "num", s |-> x]

PyTrue == [t |-> "bool", s |-> "True"]

Arr(x) == [t |-> "arr", s |-> x]

Obj(x) == [t |-> "obj", s |-> x]

\* dict.get(key): the value, or None when the key is absent.
Get(v) == IF v.t = "absent" THEN None ELSE v

\* isinstance(v, dict)
IsDict(v) == v.t = "obj"

\* isinstance(v, list)
IsList(v) == v.t = "arr"

\* isinstance(v, str)
IsStr(v) == v.t = "str"

\* bool(v): None, False, 0, "", [] and {} are falsy.
Truthy(v) ==
    CASE v.t = "null" -> FALSE
      [] v.t = "absent" -> FALSE
      [] v.t = "bool" -> v.s = "True"
      [] v.t = "num" -> v.s \notin {"0", "0.0"}
      [] v.t = "str" -> v.s # ""
      [] v.t = "arr" -> v.s # "[]"
      [] v.t = "obj" -> v.s # "{}"

\* hash(v) is defined: lists and dicts are unhashable.
Hashable(v) == v.t \notin {"arr", "obj"}

\* The key a dict files v under: True == 1 and hash(True) == hash(1), so
\* the two are one key.
DictKey(v) ==
    IF v.t = "bool" THEN Num(IF v.s = "True" THEN "1" ELSE "0") ELSE v

\* a == b as a dict compares keys.
KeyEq(a, b) == DictKey(a) = DictKey(b)

(* ------------------------------ events -------------------------------- *)

PatientCreated == Str("PatientCreated")

PatientCaseSlideAttached == Str("PatientCaseSlideAttached")

NoPayload == [t |-> "absent", PatientID |-> Absent, Name |-> Absent, File |-> Absent]

Payload(pid, name, file) ==
    [t |-> "obj", PatientID |-> pid, Name |-> name, File |-> file]

\* An element of the array that is an object.
Event(type, payload) ==
    [t |-> "obj", s |-> "{...}", EventType |-> type, Payload |-> payload]

\* An element of the array that is not an object.
NonDict(v) == [t |-> v.t, s |-> v.s, EventType |-> Absent, Payload |-> NoPayload]

Created(pid, name) == Event(PatientCreated, Payload(pid, name, Absent))

Attached(pid, file) == Event(PatientCaseSlideAttached, Payload(pid, Absent, file))

Events ==
    {Created(Str("p1"), Str("A")), Created(Str("p1"), Str("B")),
     Created(Str("p2"), Str("C")), Created(PyTrue, Str("A")),
     Created(Str("p1"), Absent), Created(Str("p1"), Str("")),
     Created(Str("p2"), Num("5")),
     Attached(Str("p1"), Str("f1")), Attached(Str("p1"), Str("f2")),
     Attached(Str("p2"), Str("f1")), Attached(Num("1"), Str("f3")),
     Attached(Str("p1"), Absent), Attached(Str("p2"), Str("")),
     Attached(Str("p1"), Num("7")),
     Event(Str("PatientDeleted"), Payload(Str("p2"), Absent, Absent)),
     Event(Absent, Payload(Str("p1"), Str("A"), Str("f1"))),
     Created(Absent, Str("A")), Attached(Str(""), Str("f1")),
     Created(Arr("[]"), Str("A")), Attached(Num("0"), Str("f1")),
     Attached(Arr("['p1']"), Str("f1")), Created(Obj("{'k': 1}"), Str("A")),
     Event(PatientCreated, NoPayload),
     Event(PatientCaseSlideAttached,
           [t |-> "str", PatientID |-> Absent, Name |-> Absent, File |-> Absent]),
     NonDict(Num("5")), Created(PyTrue, Absent)}

\* The events of the inputs that are processed more than once.
RepeatedEvents ==
    {Created(Str("p1"), Str("A")), Created(Str("p1"), Str("B")),
     Created(PyTrue, Str("A")), Created(Str("p1"), Absent),
     Attached(Str("p1"), Str("f1")), Attached(Str("p2"), Str("f1")),
     Attached(Num("1"), Str("f3")),
     Event(Str("PatientDeleted"), Payload(Str("p2"), Absent, Absent)),
     Created(Absent, Str("A")), Attached(Arr("['p1']"), Str("f1")),
     Event(PatientCreated, NoPayload), NonDict(Num("5"))}

(* ------------------------------ input --------------------------------- *)

\* os.path.join(os.getcwd(), file_path)
full_file_path == "/cwd/events.json"

\* What open() and json.load() make of the file at full_file_path, the
\* elements of an array being drawn from E.
Inputs(E) ==
    {[kind |-> "notfound", cause |-> "", events |-> <<>>],
     [kind |-> "badjson", cause |-> "", events |-> <<>>],
     [kind |-> "oserror", cause |-> "[Errno 21] Is a directory: '/cwd/events.json'",
      events |-> <<>>],
     [kind |-> "oserror", cause |-> "[Errno 13] Permission denied: '/cwd/events.json'",
      events |-> <<>>],
     [kind |-> "value", cause |-> "<class 'dict'>", events |-> <<>>],
     [kind |-> "value", cause |-> "<class 'str'>", events |-> <<>>]}
    \cup [kind : {"list"}, cause : {"<class 'list'>"},
          events : UNION {[1..n -> E] : n \in 0..MaxEvents}]

(* --------------------------- patient_data ----------------------------- *)

\* patient_data is an insertion-ordered dict: the sequence of its items,
\* [id, name, files], in insertion order.  name is a value and files a
\* sequence of values, so that what the code stores keeps its type.

\* The table of the previous call is still there.
NewTableKept(old) == old

\* patient_data = {}
NewTable(old) == <<>>

\* patient_id in patient_data
Has(table, id) == \E k \in 1..Len(table) : KeyEq(table[k].id, id)

\* The position of patient_data[patient_id].
Pos(table, id) == CHOOSE k \in 1..Len(table) : KeyEq(table[k].id, id)

\* The placeholder does not carry the id.
PlaceholderPlain(id) == Str("Unknown Patient")

\* f"Unknown Patient ({patient_id})"
Placeholder(id) == Str("Unknown Patient (" \o id.s \o ")")

\* if patient_id not in patient_data: patient_data[patient_id] = {...}
EnsureEntry(table, id) ==
    IF Has(table, id) THEN table
    ELSE Append(table, [id |-> id, name |-> Placeholder(id), files |-> <<>>])

\* The name is set only while it is still the placeholder.
SetNameOnce(table, id, name) ==
    IF table[Pos(table, id)].name = Placeholder(table[Pos(table, id)].id)
    THEN [table EXCEPT ![Pos(table, id)].name = name]
    ELSE table

\* The entry is replaced by a new one that carries the name.
SetNameFresh(table, id, name) ==
    [table EXCEPT ![Pos(table, id)] = [id |-> @.id, name |-> name, files |-> <<>>]]

\* patient_data[patient_id]["name"] = name
SetName(table, id, name) ==
    [table EXCEPT ![Pos(table, id)].name = name]

\* The file is appended only when the list does not have it yet.
AppendFileUnique(table, id, file) ==
    IF \E k \in 1..Len(table[Pos(table, id)].files) : table[Pos(table, id)].files[k] = file
    THEN table
    ELSE [table EXCEPT ![Pos(table, id)].files = Append(@, file)]

\* The file is put at the front of the list.
AppendFileFront(table, id, file) ==
    [table EXCEPT ![Pos(table, id)].files = <<file>> \o @]

\* Every list of the table gets the file, as when the entries share one list.
AppendFileShared(table, id, file) ==
    [k \in 1..Len(table) |-> [table[k] EXCEPT !.files = Append(@, file)]]

\* patient_data[patient_id]["files"].append(file_name)
AppendFile(table, id, file) ==
    [table EXCEPT ![Pos(table, id)].files = Append(@, file)]

\* Any Name but None counts.
ValidNameNotNone(name) == name.t # "null"

\* Any truthy Name counts.
ValidNameTruthy(name) == Truthy(name)

\* name and isinstance(name, str)
ValidName(name) == Truthy(name) /\ IsStr(name)

\* Any truthy File counts.
ValidFileTruthy(file) == Truthy(file)

\* file_name and isinstance(file_name, str)
ValidFile(file) == Truthy(file) /\ IsStr(file)

\* Every event type but PatientCreated is taken for an attachment.
DispatchElseAttach(table, event_type, payload, id) ==
    IF event_type = PatientCreated
    THEN IF ValidName(Get(payload.Name))
         THEN SetName(table, id, Get(payload.Name))
         ELSE table
    ELSE IF ValidFile(Get(payload.File))
         THEN AppendFile(table, id, Get(payload.File))
         ELSE table

\* The if / elif on event_type.
Dispatch(table, event_type, payload, id) ==
    IF event_type = PatientCreated
    THEN IF ValidName(Get(payload.Name))
         THEN SetName(table, id, Get(payload.Name))
         ELSE table
    ELSE IF event_type = PatientCaseSlideAttached
    THEN IF ValidFile(Get(payload.File))
         THEN AppendFile(table, id, Get(payload.File))
         ELSE table
    ELSE table

\* The entry is created only under the two known event types.
HandleEventKnownOnly(table, event) ==
    LET id == Get(event.Payload.PatientID)
    IN IF Get(event.EventType) \in {PatientCreated, PatientCaseSlideAttached}
       THEN Dispatch(EnsureEntry(table, id), Get(event.EventType), event.Payload, id)
       ELSE table

\* One iteration of the loop for an event that reaches the table.
HandleEvent(table, event) ==
    LET id == Get(event.Payload.PatientID)
    IN Dispatch(EnsureEntry(table, id), Get(event.EventType), event.Payload, id)

\* The texts of a list of values.
Texts(values) == [k \in 1..Len(values) |-> values[k].s]

RECURSIVE Fold(_, _)
\* The loop over the events es, begun with table, when no event raises.
Fold(table, es) ==
    IF Len(es) = 0 THEN table
    ELSE Fold(IF /\ IsDict(Head(es))
                 /\ IsDict(Head(es).Payload)
                 /\ Truthy(Get(Head(es).Payload.PatientID))
              THEN HandleEvent(table, Head(es))
              ELSE table,
              Tail(es))

RECURSIVE Join(_, _)
\* sep.join(strs)
Join(strs, sep) ==
    IF Len(strs) = 0 THEN ""
    ELSE IF Len(strs) = 1 THEN strs[1]
    ELSE strs[1] \o sep \o Join(Tail(strs), sep)

\* f"{data['name']}: {', '.join(data['files'])}"
RenderLine(data) == data.name.s \o ": " \o Join(Texts(data.files), ", ")

\* if data["files"]:
HasFiles(data) == Len(data.files) > 0

RECURSIVE Render(_)
\* The lines the output loop prints for the table.
Render(table) ==
    IF Len(table) = 0 THEN <<>>
    ELSE (IF HasFiles(table[1]) THEN <<RenderLine(table[1])>> ELSE <<>>)
         \o Render(Tail(table))

(* ----------------------------- messages ------------------------------- *)

NotFoundMessage == "Error: Input file '" \o full_file_path \o "' not found."

InvalidJsonMessage == "Error: Invalid JSON in file '" \o full_file_path \o "'."

UnexpectedMessage(cause) ==
    "An unexpected error occurred while reading the file: " \o cause

NotListMessage(type) ==
    "Error: Expected JSON array of events, but got " \o type \o " from '"
    \o full_file_path \o "'."

NonDictWarning(event) == "Warning: Skipping non-dictionary event: " \o event.s

\* The last line of the traceback of the uncaught TypeError.
UnhashableTraceback(id) ==
    "TypeError: unhashable type: '" \o (IF IsList(id) THEN "list" ELSE "dict") \o "'"

(* ------------------------------- state -------------------------------- *)

InitOver(E) ==
    /\ input \in Inputs(E)
    /\ pc = "load"
    /\ events = <<>>
    /\ i = 1
    /\ patient_data = <<>>
    /\ stdout = <<>>
    /\ stderr = <<>>
    /\ exit_code = 0
    /\ run = 1
    /\ first_run = <<>>

Init == InitOver(Events)

InitTwice == InitOver(RepeatedEvents)

\* The message is printed but the call goes on to the loop.
FatalNoExit(message) ==
    /\ stderr' = Append(stderr, message)
    /\ pc' = "fold"
    /\ patient_data' = NewTable(patient_data)
    /\ UNCHANGED <<input, events, i, stdout, exit_code, run, first_run>>

\* print(message, file=sys.stderr); sys.exit(1)
Fatal(message) ==
    /\ stderr' = Append(stderr, message)
    /\ exit_code' = 1
    /\ pc' = "exited"
    /\ patient_data' = NewTable(patient_data)
    /\ UNCHANGED <<input, events, i, stdout, run, first_run>>

\* except FileNotFoundError
LoadNotFound ==
    /\ pc = "load"
    /\ input.kind = "notfound"
    /\ Fatal(NotFoundMessage)

\* except json.JSONDecodeError
LoadInvalidJson ==
    /\ pc = "load"
    /\ input.kind = "badjson"
    /\ Fatal(InvalidJsonMessage)

\* except Exception as e
LoadUnexpected ==
    /\ pc = "load"
    /\ input.kind = "oserror"
    /\ Fatal(UnexpectedMessage(input.cause))

\* if not isinstance(events, list)
LoadNotList ==
    /\ pc = "load"
    /\ input.kind = "value"
    /\ Fatal(NotListMessage(input.cause))

\* events = json.load(f) is a list: the loop begins.
LoadList ==
    /\ pc = "load"
    /\ input.kind = "list"
    /\ patient_data' = NewTable(patient_data)
    /\ events' = input.events
    /\ i' = 1
    /\ pc' = "fold"
    /\ UNCHANGED <<input, stdout, stderr, exit_code, run, first_run>>

\* continue
Continue ==
    /\ i' = i + 1
    /\ UNCHANGED <<input, pc, events, patient_data, stdout, exit_code, run, first_run>>

\* if not isinstance(event, dict): print warning; continue
SkipNonDict ==
    /\ pc = "fold"
    /\ i <= Len(events)
    /\ ~IsDict(events[i])
    /\ stderr' = Append(stderr, NonDictWarning(events[i]))
    /\ Continue

\* The warning of line 58 is printed.
SkipNoPayloadWarn ==
    /\ pc = "fold"
    /\ i <= Len(events)
    /\ IsDict(events[i])
    /\ ~IsDict(events[i].Payload)
    /\ stderr' = Append(stderr, "Warning: Skipping event with missing or invalid payload")
    /\ Continue

\* if not isinstance(payload, dict): continue
SkipNoPayload ==
    /\ pc = "fold"
    /\ i <= Len(events)
    /\ IsDict(events[i])
    /\ ~IsDict(events[i].Payload)
    /\ stderr' = stderr
    /\ Continue

\* if not patient_id: continue
SkipNoPatientId ==
    /\ pc = "fold"
    /\ i <= Len(events)
    /\ IsDict(events[i])
    /\ IsDict(events[i].Payload)
    /\ ~Truthy(Get(events[i].Payload.PatientID))
    /\ stderr' = stderr
    /\ Continue

\* patient_id not in patient_data raises TypeError for a list or a dict;
\* nothing catches it: traceback on stderr, exit status 1.
RaiseUnhashable ==
    /\ pc = "fold"
    /\ i <= Len(events)
    /\ IsDict(events[i])
    /\ IsDict(events[i].Payload)
    /\ Truthy(Get(events[i].Payload.PatientID))
    /\ ~Hashable(Get(events[i].Payload.PatientID))
    /\ stderr' = Append(stderr, UnhashableTraceback(Get(events[i].Payload.PatientID)))
    /\ exit_code' = 1
    /\ pc' = "exited"
    /\ UNCHANGED <<input, events, i, patient_data, stdout, run, first_run>>

\* The rest of the loop body.
Handle ==
    /\ pc = "fold"
    /\ i <= Len(events)
    /\ IsDict(events[i])
    /\ IsDict(events[i].Payload)
    /\ Truthy(Get(events[i].Payload.PatientID))
    /\ Hashable(Get(events[i].Payload.PatientID))
    /\ patient_data' = HandleEvent(patient_data, events[i])
    /\ i' = i + 1
    /\ UNCHANGED <<input, pc, events, stdout, stderr, exit_code, run, first_run>>

\* The output loop, then the return to main and the end of the process.
Output ==
    /\ pc = "fold"
    /\ i > Len(events)
    /\ stdout' = stdout \o Render(patient_data)
    /\ exit_code' = 0
    /\ pc' = "exited"
    /\ UNCHANGED <<input, events, i, patient_data, stderr, run, first_run>>

Next ==
    \/ LoadNotFound
    \/ LoadInvalidJson
    \/ LoadUnexpected
    \/ LoadNotList
    \/ LoadList
    \/ SkipNonDict
    \/ SkipNoPayload
    \/ SkipNoPatientId
    \/ RaiseUnhashable
    \/ Handle
    \/ Output

Spec == Init /\ [][Next]_vars

\* The same input is processed again: a second call of process_events, or
\* a second process.  The streams and the exit status are those of the new
\* call; patient_data is whatever line 15 makes of it.
Reinvoke ==
    /\ pc = "exited"
    /\ run < MaxRuns
    /\ first_run' = IF run = 1
                     THEN <<[patient_data |-> patient_data, stdout |-> stdout,
                             stderr |-> stderr, exit_code |-> exit_code]>>
                     ELSE first_run
    /\ run' = run + 1
    /\ pc' = "load"
    /\ events' = <<>>
    /\ i' = 1
    /\ stdout' = <<>>
    /\ stderr' = <<>>
    /\ exit_code' = 0
    /\ UNCHANGED <<input, patient_data>>

NextTwice == Next \/ Reinvoke

SpecTwice == InitTwice /\ [][NextTwice]_vars

(* ------------------- vocabulary of the properties --------------------- *)

\* The call got to the end of the output loop and the process ended with 0.
Succeeded == input.kind = "list" /\ pc = "exited" /\ exit_code = 0

\* The call is over, whichever way.
Ended == pc = "exited"

Range(q) == {q[k] : k \in 1..Len(q)}

IsRecord(v) == v.t = "obj"

\* Missing, empty or falsy.
Falsy(v) ==
    \/ v.t \in {"absent", "null"}
    \/ v.t = "str" /\ v.s = ""
    \/ v.t = "num" /\ v.s \in {"0", "0.0"}
    \/ v.t = "bool" /\ v.s = "False"
    \/ v.t = "arr" /\ v.s = "[]"
    \/ v.t = "obj" /\ v.s = "{}"

NonEmptyString(v) == v.t = "str" /\ v.s # ""

\* A record with a record Payload and a non-empty PatientID.
Linkable(e) == IsRecord(e) /\ IsRecord(e.Payload) /\ ~Falsy(e.Payload.PatientID)

Malformed(e) == ~Linkable(e)

IdOf(e) == e.Payload.PatientID

\* A PatientCreated event of patient id whose Name is a non-empty string.
Names(e, id) ==
    /\ Linkable(e)
    /\ KeyEq(IdOf(e), id)
    /\ e.EventType = PatientCreated
    /\ NonEmptyString(e.Payload.Name)

\* A PatientCaseSlideAttached event of patient id whose File is a non-empty string.
Attaches(e, id) ==
    /\ Linkable(e)
    /\ KeyEq(IdOf(e), id)
    /\ e.EventType = PatientCaseSlideAttached
    /\ NonEmptyString(e.Payload.File)

\* The Name of the last event of es that names patient id.
LastName(es, id) ==
    LET k == CHOOSE k \in 1..Len(es) :
                 /\ Names(es[k], id)
                 /\ \A m \in (k + 1)..Len(es) : ~Names(es[m], id)
    IN es[k].Payload.Name.s

Named(es, id) == \E k \in 1..Len(es) : Names(es[k], id)

\* The view of patient id in the table.
View(id) == patient_data[Pos(patient_data, id)]

(* ------------------------------- C1 ----------------------------------- *)

\* C1: once the input has decoded to an array, whatever its elements are,
\* the loop runs over every event and the process ends with exit code 0.
\* The code does not do this: a truthy PatientID that is a list or a dict
\* raises TypeError at "patient_id not in patient_data".
C1_NeverFailsOnEvents ==
    (input.kind = "list" /\ Ended) => (exit_code = 0 /\ i = Len(events) + 1)

(* ------------------------------- C2 ----------------------------------- *)

\* C2: after the fold the keys of the table are exactly the PatientID
\* values of the linkable events (a record, a record Payload, a non-empty
\* PatientID), whatever their EventType; keys are compared as the dict
\* compares them, and no key occurs twice.
C2_KeysAreLinkableIds ==
    Succeeded =>
        /\ \A k \in 1..Len(patient_data) :
               \E m \in 1..Len(events) :
                   Linkable(events[m]) /\ KeyEq(IdOf(events[m]), patient_data[k].id)
        /\ \A m \in 1..Len(events) :
               Linkable(events[m]) => Has(patient_data, IdOf(events[m]))
        /\ \A k, m \in 1..Len(patient_data) :
               KeyEq(patient_data[k].id, patient_data[m].id) => k = m

\* Two patients are in the table, one of them only through an event of an
\* unknown type, and one event of the input was not linkable.
C2_Witness ==
    /\ Succeeded
    /\ Len(patient_data) = 2
    /\ \E m \in 1..Len(events) : Malformed(events[m])
    /\ \E m \in 1..Len(events) :
           /\ Linkable(events[m])
           /\ events[m].EventType \notin {PatientCreated, PatientCaseSlideAttached}
           /\ \A n \in 1..Len(events) :
                  (n # m /\ Linkable(events[n])) => ~KeyEq(IdOf(events[n]), IdOf(events[m]))

(* ------------------------------- C3 ----------------------------------- *)

\* The step of the loop over a malformed event: the loop moves on, nothing
\* is raised, the table and standard output are as they were.
DroppedStep ==
    /\ pc' = "fold"
    /\ i' = i + 1
    /\ exit_code' = exit_code
    /\ patient_data' = patient_data
    /\ stdout' = stdout

AtMalformed == pc = "fold" /\ i <= Len(events) /\ Malformed(events[i])

\* C3 as claimed: a malformed event is dropped with nothing written to
\* standard output or standard error.
C3_DroppedSilently ==
    [][AtMalformed => (DroppedStep /\ stderr' = stderr)]_vars

\* C3 as amended: a malformed event is dropped without an error and without
\* a change of the table or of standard output; standard error is unchanged
\* too when the event is a record, and gets the one line
\* "Warning: Skipping non-dictionary event: <event>" when it is not.
C3_DroppedWithWarningForNonRecord ==
    [][AtMalformed =>
          /\ DroppedStep
          /\ stderr' = IF IsRecord(events[i])
                       THEN stderr
                       ELSE Append(stderr,
                                   "Warning: Skipping non-dictionary event: "
                                   \o events[i].s)]_vars

\* A non-record and then a malformed record were dropped after a patient
\* had entered the table: one warning, the table as it was.
C3_Witness ==
    /\ pc = "fold"
    /\ i = 4
    /\ Linkable(events[1])
    /\ ~IsRecord(events[2])
    /\ IsRecord(events[3]) /\ Malformed(events[3])
    /\ Len(patient_data) = 1
    /\ Len(stderr) = 1

(* ------------------------------- C4 ----------------------------------- *)

\* C4: after the fold, the name of every patient that some PatientCreated
\* event with a non-empty string Name names is the Name of the last such
\* event, whatever lies between or after.
C4_LastNameWins ==
    Succeeded =>
        \A k \in 1..Len(events) :
            (Linkable(events[k]) /\ Named(events, IdOf(events[k]))) =>
                /\ Has(patient_data, IdOf(events[k]))
                /\ View(IdOf(events[k])).name = Str(LastName(events, IdOf(events[k])))

\* PatientCreated(id, "A"), an event of another kind, PatientCreated(id, "B"):
\* the name is "B".
C4_Witness ==
    /\ Succeeded
    /\ Len(events) = 3
    /\ Names(events[1], IdOf(events[1]))
    /\ Names(events[3], IdOf(events[1]))
    /\ ~Names(events[2], IdOf(events[1]))
    /\ events[1].Payload.Name.s = "A"
    /\ events[3].Payload.Name.s = "B"
    /\ View(IdOf(events[1])).name = Str("B")

(* ------------------------------- C5 ----------------------------------- *)

\* C5: when an attachment with a valid File precedes a PatientCreated with a
\* valid Name of the same patient, after the fold the file is in the
\* patient's files, the name is the one the PatientCreated events supplied,
\* and the patient's line on standard output is "<name>: <files>" with that
\* name, not with the placeholder.
C5_SlideBeforeCreateKept ==
    Succeeded =>
        \A k, m \in 1..Len(events) :
            (k < m /\ Linkable(events[k]) /\ Attaches(events[k], IdOf(events[k]))
                   /\ Names(events[m], IdOf(events[k]))) =>
                LET id == IdOf(events[k])
                IN /\ Has(patient_data, id)
                   /\ events[k].Payload.File \in Range(View(id).files)
                   /\ View(id).name = Str(LastName(events, id))
                   /\ (LastName(events, id) \o ": " \o Join(Texts(View(id).files), ", "))
                          \in Range(stdout)
                   /\ \A n \in 1..Len(stdout) :
                          stdout[n] # "Unknown Patient (" \o View(id).id.s \o "): "
                                      \o Join(Texts(View(id).files), ", ")

\* The attachment came first, the PatientCreated after it, and the one line
\* printed is "<Name>: <File>".
C5_Witness ==
    /\ Succeeded
    /\ Len(events) >= 2
    /\ Attaches(events[1], IdOf(events[1]))
    /\ Names(events[2], IdOf(events[1]))
    /\ stdout = <<events[2].Payload.Name.s \o ": " \o events[1].Payload.File.s>>

(* ------------------------------- C6 ----------------------------------- *)

OnlyPatientCreated ==
    /\ input.kind = "list"
    /\ \A k \in 1..Len(input.events) :
           IsRecord(input.events[k]) /\ input.events[k].EventType = PatientCreated

\* C6: a patient whose files list is empty after the fold has no line on
\* standard output, and an input made only of PatientCreated events ends
\* with exit code 0, empty standard output and empty standard error.
\* The code does not do the second: a PatientCreated event whose PatientID
\* is a non-empty list or dict ends the process as in C1.
C6_NoFilesNoLine ==
    /\ Succeeded =>
           /\ Len(stdout) = Cardinality({k \in 1..Len(patient_data) :
                                             patient_data[k].files # <<>>})
           /\ \A k \in 1..Len(patient_data) :
                  patient_data[k].files = <<>> =>
                      (patient_data[k].name.s \o ": ") \notin Range(stdout)
    /\ (OnlyPatientCreated /\ Ended) =>
           (exit_code = 0 /\ stdout = <<>> /\ stderr = <<>>)

(* ------------------------------- C7 ----------------------------------- *)

RECURSIVE FirstAppearance(_, _)
\* The PatientIDs of the linkable events of es, each once, in the order of
\* their first appearance (seen: those found so far).
FirstAppearance(es, seen) ==
    IF es = <<>> THEN seen
    ELSE IF Linkable(Head(es))
            /\ ~\E k \in 1..Len(seen) : KeyEq(seen[k], IdOf(Head(es)))
    THEN FirstAppearance(Tail(es), Append(seen, IdOf(Head(es))))
    ELSE FirstAppearance(Tail(es), seen)

RECURSIVE FilesOf(_, _)
\* The Files of the events of es that attach a file to patient id, in order.
FilesOf(es, id) ==
    IF es = <<>> THEN <<>>
    ELSE (IF Attaches(Head(es), id) THEN <<Head(es).Payload.File.s>> ELSE <<>>)
         \o FilesOf(Tail(es), id)

\* The final name of patient id: the last Name given, or the placeholder.
FinalName(es, id) ==
    IF Named(es, id) THEN LastName(es, id) ELSE "Unknown Patient (" \o id.s \o ")"

RECURSIVE CommaJoined(_)
CommaJoined(fs) ==
    IF Len(fs) = 1 THEN fs[1] ELSE fs[1] \o ", " \o CommaJoined(Tail(fs))

RECURSIVE ExpectedLines(_, _)
\* One line per patient of ids that has a file in es.
ExpectedLines(ids, es) ==
    IF ids = <<>> THEN <<>>
    ELSE (IF FilesOf(es, Head(ids)) # <<>>
          THEN <<FinalName(es, Head(ids)) \o ": " \o CommaJoined(FilesOf(es, Head(ids)))>>
          ELSE <<>>)
         \o ExpectedLines(Tail(ids), es)

RECURSIVE ExpectedWarnings(_)
\* One warning per element of es that is not a record.
ExpectedWarnings(es) ==
    IF es = <<>> THEN <<>>
    ELSE (IF IsRecord(Head(es)) THEN <<>>
          ELSE <<"Warning: Skipping non-dictionary event: " \o Head(es).s>>)
         \o ExpectedWarnings(Tail(es))

ExpectedOutput == ExpectedLines(FirstAppearance(events, <<>>), events)

\* C7 as claimed: on a successful run standard output is exactly one line
\* per patient with a file, in the order of first appearance of the
\* PatientIDs, "<final name>: <files joined by ', '>" with the files in
\* event order and duplicates kept, and standard error is empty.
C7_OutputAndEmptyStderr ==
    Succeeded => (stdout = ExpectedOutput /\ stderr = <<>>)

\* C7 as amended: standard output is as claimed; standard error holds one
\* line "Warning: Skipping non-dictionary event: <element>" per element of
\* the array that is not a record, in order, and nothing else.
C7_OutputAndWarnings ==
    Succeeded => (stdout = ExpectedOutput /\ stderr = ExpectedWarnings(events))

\* Two lines, the first for a patient whose first event attached no file
\* and whose file came after the other patient's.
C7_Witness ==
    /\ Succeeded
    /\ Len(events) = 3
    /\ Len(stdout) = 2
    /\ Linkable(events[1])
    /\ ~Attaches(events[1], IdOf(events[1]))
    /\ Attaches(events[2], IdOf(events[2]))
    /\ ~KeyEq(IdOf(events[2]), IdOf(events[1]))
    /\ Attaches(events[3], IdOf(events[1]))
    /\ stdout[1] = View(IdOf(events[1])).name.s \o ": " \o events[3].Payload.File.s

(* ------------------------------- C8 ----------------------------------- *)

\* C8: a fatal input error (file not found, invalid JSON, another exception
\* while opening or reading, a top-level value that is not an array) is
\* reported with one line on standard error and ends the process with exit
\* code 1; the loop is never entered, no event is folded and nothing is
\* written to standard output.
C8_FatalReportedOnce ==
    input.kind # "list" =>
        /\ pc # "fold"
        /\ Ended =>
               /\ exit_code = 1
               /\ Len(stderr) = 1
               /\ stdout = <<>>
               /\ patient_data = <<>>
               /\ events = <<>>
               /\ i = 1

\* The process has ended on an exception other than the two named ones.
C8_Witness ==
    /\ Ended
    /\ input.kind = "oserror"
    /\ exit_code = 1
    /\ stderr = <<"An unexpected error occurred while reading the file: " \o input.cause>>

(* ------------------------------- C9 ----------------------------------- *)

\* C9: every line that a fatal input error of any of the four kinds writes
\* to standard error starts with "Error: ".  The code does not do this for
\* the fourth kind: the message of "except Exception" starts with
\* "An unexpected error occurred".
C9_ErrorPrefix ==
    (input.kind # "list" /\ Ended) =>
        \A n \in 1..Len(stderr) : SubSeq(stderr[n], 1, 7) = "Error: "

(* ------------------------------- C10 ---------------------------------- *)

\* C10: processing the same input a second time gives the table of the
\* first time (keys, insertion order, names, files), and the same standard
\* output, standard error and exit code: nothing of the first fold is left
\* in the second.
C10_SecondFoldIdentical ==
    (run > 1 /\ Ended) =>
        first_run = <<[patient_data |-> patient_data, stdout |-> stdout,
                       stderr |-> stderr, exit_code |-> exit_code]>>

\* The second fold has ended with two patients in the table and a line
\* printed.
C10_Witness ==
    /\ run = 2
    /\ Succeeded
    /\ Len(patient_data) = 2
    /\ Len(stdout) >= 1
    /\ Len(first_run) = 1

(* ------------------------------- C11 ---------------------------------- *)

IsPrefix(a, b) == Len(a) <= Len(b) /\ \A k \in 1..Len(a) : a[k] = b[k]

\* C11: across every step of the fold no entry of the table is removed or
\* moved, and the files list of every entry already there is a prefix of
\* its files list after the step, longer by at most one element.
C11_TableOnlyGrows ==
    [][pc = "fold" =>
          /\ Len(patient_data') >= Len(patient_data)
          /\ \A k \in 1..Len(patient_data) :
                 /\ patient_data'[k].id = patient_data[k].id
                 /\ IsPrefix(patient_data[k].files, patient_data'[k].files)
                 /\ Len(patient_data'[k].files) <= Len(patient_data[k].files) + 1]_vars

\* Three events have been folded: two patients are in the table and the
\* first of them has got its second file after the other one came in.
C11_Witness ==
    /\ pc = "fold"
    /\ i = 4
    /\ Len(patient_data) = 2
    /\ Len(patient_data[1].files) = 2
    /\ Attaches(events[3], patient_data[1].id)
    /\ Linkable(events[2]) /\ KeyEq(IdOf(events[2]), patient_data[2].id)

(* ------------------------------- C12 ---------------------------------- *)

\* An attachment of a linkable event whose File is missing, empty or not a
\* string.
AttachesNothing(e) ==
    /\ Linkable(e)
    /\ e.EventType = PatientCaseSlideAttached
    /\ ~NonEmptyString(e.Payload.File)

\* C12: after the fold the files list of every patient is the sequence, in
\* event order and with duplicates, of the File values of the
\* PatientCaseSlideAttached events of that patient whose File is a
\* non-empty string, and nothing else; an attachment without such a File
\* still has its patient in the table.
C12_FilesAreValidAttachments ==
    Succeeded =>
        /\ \A k \in 1..Len(patient_data) :
               /\ Texts(patient_data[k].files) = FilesOf(events, patient_data[k].id)
               /\ \A n \in 1..Len(patient_data[k].files) : IsStr(patient_data[k].files[n])
        /\ \A m \in 1..Len(events) :
               AttachesNothing(events[m]) => Has(patient_data, IdOf(events[m]))

\* A patient that only an attachment without a valid File brought in has no
\* file, next to a patient with the same file twice.
C12_Witness ==
    /\ Succeeded
    /\ \E m \in 1..Len(events) :
           /\ AttachesNothing(events[m])
           /\ View(IdOf(events[m])).files = <<>>
    /\ \E k \in 1..Len(patient_data) :
           /\ Len(patient_data[k].files) = 2
           /\ patient_data[k].files[1] = patient_data[k].files[2]

(* ------------------------------- C13 ---------------------------------- *)

\* The loop is at a linkable PatientCreated event whose Name is missing,
\* empty or not a string.
AtCreatedWithoutName ==
    /\ pc = "fold"
    /\ i <= Len(events)
    /\ Linkable(events[i])
    /\ events[i].EventType = PatientCreated
    /\ ~NonEmptyString(events[i].Payload.Name)

\* The entry that the first event of a PatientID puts into the table.
NewEntry(id) ==
    [id |-> id, name |-> Str("Unknown Patient (" \o id.s \o ")"), files |-> <<>>]

InTable(id) == \E k \in 1..Len(patient_data) : KeyEq(patient_data[k].id, id)

\* C13: a PatientCreated event whose Name is missing, empty or not a string
\* changes no name (a real name stays, a placeholder stays) and nothing
\* else of the table; all it can do is add the entry of a new PatientID.
C13_InvalidNameKeepsName ==
    [][AtCreatedWithoutName =>
          \/ patient_data' = patient_data
          \/ /\ ~InTable(IdOf(events[i]))
             /\ patient_data' = Append(patient_data, NewEntry(IdOf(events[i])))]_vars

\* A PatientCreated event without a valid Name came after the patient had
\* got the name "A": the name is still "A".
C13_Witness ==
    /\ pc = "fold"
    /\ i = 3
    /\ Names(events[1], IdOf(events[1]))
    /\ Linkable(events[2])
    /\ KeyEq(IdOf(events[2]), IdOf(events[1]))
    /\ events[2].EventType = PatientCreated
    /\ ~NonEmptyString(events[2].Payload.Name)
    /\ patient_data = <<[id |-> IdOf(events[1]), name |-> events[1].Payload.Name,
                         files |-> <<>>]>>

(* ------------------------------- C14 ---------------------------------- *)

\* A linkable event whose PatientID can be a key and whose EventType is
\* missing or is none of the two known types.
OfOtherType(e) ==
    /\ Linkable(e)
    /\ IdOf(e).t \notin {"arr", "obj"}
    /\ e.EventType \notin {PatientCreated, PatientCaseSlideAttached}

StartsWith(line, prefix) ==
    Len(line) >= Len(prefix) /\ SubSeq(line, 1, Len(prefix)) = prefix

\* C14: the step over an event of another type appends the entry with the
\* placeholder name and no files when its PatientID is new, changes
\* nothing of the table otherwise, and prints nothing; a patient that only
\* such events mention ends with that entry and without a line on standard
\* output.
C14_OtherTypeOnlyCreatesEntry ==
    /\ [][(pc = "fold" /\ i <= Len(events) /\ OfOtherType(events[i])) =>
             /\ patient_data' = IF InTable(IdOf(events[i]))
                                THEN patient_data
                                ELSE Append(patient_data, NewEntry(IdOf(events[i])))
             /\ stdout' = stdout
             /\ stderr' = stderr]_vars
    /\ [](Succeeded =>
             \A k \in 1..Len(patient_data) :
                 (\A m \in 1..Len(events) :
                      (Linkable(events[m]) /\ KeyEq(IdOf(events[m]), patient_data[k].id))
                          => OfOtherType(events[m])) =>
                     /\ patient_data[k] = NewEntry(patient_data[k].id)
                     /\ \A n \in 1..Len(stdout) :
                            ~StartsWith(stdout[n], patient_data[k].name.s \o ": "))

\* An event of an unknown type that carries a Name and a File brought a
\* second patient into the table, after a patient with a name and a file:
\* the new entry has the placeholder and no file, and the only line printed
\* is the first patient's.
C14_Witness ==
    /\ Succeeded
    /\ Len(events) = 3
    /\ OfOtherType(events[3])
    /\ NonEmptyString(events[3].Payload.Name)
    /\ NonEmptyString(events[3].Payload.File)
    /\ Len(patient_data) = 2
    /\ patient_data[2] = NewEntry(IdOf(events[3]))
    /\ patient_data[1].name # NewEntry(patient_data[1].id).name
    /\ Len(stdout) = 1

(* ------------------------------- C15 ---------------------------------- *)

\* The events that the loop has been through.
Processed == SubSeq(events, 1, i - 1)

\* C15: at every point of the fold, an entry of the table whose patient no
\* processed PatientCreated event with a non-empty string Name has named
\* has the name "Unknown Patient (<id>)", <id> being the PatientID the entry
\* is filed under; when the fold ends so and the entry has files, its line
\* on standard output is that placeholder, ": " and the files.
C15_PlaceholderUntilNamed ==
    (input.kind = "list" /\ pc \in {"fold", "exited"}) =>
        \A k \in 1..Len(patient_data) :
            ~Named(Processed, patient_data[k].id) =>
                /\ patient_data[k].name =
                       Str("Unknown Patient (" \o patient_data[k].id.s \o ")")
                /\ (Succeeded /\ patient_data[k].files # <<>>) =>
                       \E n \in 1..Len(stdout) :
                           stdout[n] = "Unknown Patient (" \o patient_data[k].id.s \o "): "
                                       \o CommaJoined(Texts(patient_data[k].files))

\* The fold has ended with a line for a patient that was never named, after
\* a PatientCreated event without a valid Name for it, and a second patient
\* that was named.
C15_Witness ==
    /\ Succeeded
    /\ Len(patient_data) = 2
    /\ \E k \in 1..2 :
           /\ ~Named(events, patient_data[k].id)
           /\ \E m \in 1..Len(events) :
                  /\ Linkable(events[m])
                  /\ KeyEq(IdOf(events[m]), patient_data[k].id)
                  /\ events[m].EventType = PatientCreated
           /\ patient_data[k].files # <<>>
           /\ stdout = <<"Unknown Patient (" \o patient_data[k].id.s \o "): "
                         \o patient_data[k].files[1].s>>
           /\ Named(events, patient_data[3 - k].id)

(* ------------------------------- C16 ---------------------------------- *)

\* The event at the loop's position carries PatientID id.
Carries(id) ==
    /\ i <= Len(events)
    /\ Linkable(events[i])
    /\ KeyEq(IdOf(events[i]), id)

\* C16: a step of the fold leaves every entry of the table at its position
\* under its key, and leaves the name and the files list of every entry but
\* the one of the PatientID that the event carries as they were.
C16_OnlyOwnViewChanges ==
    [][pc = "fold" =>
          /\ Len(patient_data') >= Len(patient_data)
          /\ \A k \in 1..Len(patient_data) :
                 /\ patient_data'[k].id = patient_data[k].id
                 /\ ~Carries(patient_data[k].id) => patient_data'[k] = patient_data[k]]_vars

\* The third event attached a file to the first of two patients, both of
\* which had a file: the second patient's view is what its own event made.
C16_Witness ==
    /\ pc = "fold"
    /\ i = 4
    /\ Len(patient_data) = 2
    /\ Attaches(events[1], patient_data[1].id)
    /\ Attaches(events[2], patient_data[2].id)
    /\ Attaches(events[3], patient_data[1].id)
    /\ patient_data[2].files = <<events[2].Payload.File>>
    /\ patient_data[1].files = <<events[1].Payload.File, events[3].Payload.File>>

(* ------------------------------- C17 ---------------------------------- *)

\* es with the events at k and k + 1 swapped.
Swapped(es, k) ==
    [n \in 1..Len(es) |-> IF n = k THEN es[k + 1] ELSE IF n = k + 1 THEN es[k] ELSE es[n]]

\* Two events of different patients, or a PatientCreated and a
\* PatientCaseSlideAttached event of one patient.
MaySwap(a, b) ==
    /\ Linkable(a)
    /\ Linkable(b)
    /\ \/ ~KeyEq(IdOf(a), IdOf(b))
       \/ {a.EventType, b.EventType} = {PatientCreated, PatientCaseSlideAttached}

\* The two tables have the same patients, each with the same name and the
\* same files list.
SameViews(t1, t2) ==
    /\ Len(t1) = Len(t2)
    /\ \A k \in 1..Len(t1) :
           \E m \in 1..Len(t2) :
               /\ KeyEq(t1[k].id, t2[m].id)
               /\ t1[k].name = t2[m].name
               /\ t1[k].files = t2[m].files

\* C17: swapping two adjacent events of different patients, or an adjacent
\* PatientCreated and PatientCaseSlideAttached event of one patient, leaves
\* the final name and the final files list of every patient as they are.
\* The code does not do this when the two events give one patient's
\* PatientID as true and as 1: the placeholder name is built from the one
\* that comes first.
C17_SwapKeepsViews ==
    Succeeded =>
        \A k \in 1..(Len(events) - 1) :
            MaySwap(events[k], events[k + 1]) =>
                SameViews(patient_data, Fold(<<>>, Swapped(events, k)))

(* ------------------------------- C18 ---------------------------------- *)

\* C18: in every state every entry of the table has a name that is a
\* non-empty string and a files list of non-empty strings, so that the
\* line of an entry is made of strings only.
C18_ViewsHoldStrings ==
    \A k \in 1..Len(patient_data) :
        /\ NonEmptyString(patient_data[k].name)
        /\ \A n \in 1..Len(patient_data[k].files) :
               NonEmptyString(patient_data[k].files[n])

\* The fold has ended and printed a line, after a PatientCreated event
\* whose Name is a number and an attachment whose File is a number or the
\* empty string.
C18_Witness ==
    /\ Succeeded
    /\ Len(stdout) = 1
    /\ \E m \in 1..Len(events) :
           /\ Linkable(events[m])
           /\ events[m].EventType = PatientCreated
           /\ events[m].Payload.Name.t = "num"
    /\ \E m \in 1..Len(events) :
           /\ Linkable(events[m])
           /\ events[m].EventType = PatientCaseSlideAttached
           /\ ~NonEmptyString(events[m].Payload.File)
           /\ events[m].Payload.File.t # "absent"

====
